---- MODULE Spec2Model ----
(***************************************************************************)
(* The batch upload retry loop of the conversion pipeline:                 *)
(* SendBatchEvents.__send_events and its helpers                           *)
(* (src/src/data_utils/send_batch_events.py), with the part of             *)
(* EventCreator (src/src/data_utils/event_creator.py) and of               *)
(* DataMapperThreadedWorker (src/src/models/workers.py) that the loop      *)
(* calls to remap the records it sends again.                              *)
(*                                                                         *)
(* One behaviour is one invocation of __send_events on one chunk, with the  *)
(* keyword arguments its caller passed.  The                               *)
(* upload endpoint is the environment: for every submitted batch it        *)
(* chooses, per position, whether the record is accepted, rejected with    *)
(* the recoverable message, rejected with another message, or not          *)
(* accepted without any error detail; or the call itself raises.           *)
(***************************************************************************)
EXTENDS Integers, Sequences, FiniteSets

\* ------------------------------------------------------------------ bounds

\* Longest chunk handed to one invocation.
MaxBatch == 3

\* The model stops counting endpoint calls here (above the round cap).
MaxSubmissions == 52

\* Longest list handed to the DataSplitter.
MaxList == 4

\* Largest num_of_splits handed to the DataSplitter.
MaxSplits == 3

\* service.py:84  the chunk size the pipeline asks for
PipelineSplits == 2000

\* Most tasks one call of run_threaded_tasks submits.
MaxTasks == 2

\* Longest chunk of two upload tasks running side by side.
MaxPoolBatch == 2

\* Largest number of user identifiers of one record.
MaxIdentifiers == 3

\* ------------------------------------------------------- program constants

\* send_batch_events.py:106  "if i == 50"
RoundCap == 50

\* send_batch_events.py:180  the message that makes a rejection retryable
RecoverableMessage == "conversion_date_time precedes the click"

\* Any other error message of the endpoint.
OtherMessage == "other error"

\* send_batch_events.py:217-228  the keys of the payload rebuilt for a retry
RetryPayloadKeys ==
    {"value", "date", "conversion_action_id", "click_id", "gbraid", "wbraid",
     "currency", "order_id", "email", "phone"}

\* event_creator.py:86-97  the keys __mapper reads from its input
MapperKeys ==
    {"currency", "conversion_name", "conversion_time", "value", "click_id"}

\* Click identifiers of the records of a chunk; "" is a record without gclid
\* (identified by gbraid/wbraid instead).
Gclids == {"", "g1", "g2", "g3"}

\* send_batch_events.py:56-57  the keyword arguments __send_events reads
KwargNames == {"client", "customer_id"}

\* What the endpoint can decide for one submitted record.
Outcomes == {"acc", "retry", "perm", "none"}

\* -------------------------------------------------------------- sequences

Range(s) == {s[k] : k \in 1..Len(s)}

\* All orders of the elements of s.
Perms(s) ==
    { [k \in 1..Len(s) |-> s[p[k]]] :
        p \in { q \in [1..Len(s) -> 1..Len(s)] : Range(q) = 1..Len(s) } }

\* ------------------------------------------------------------- the chunks

\* A mapped event: id is its position in the chunk (used to follow it through
\* the rounds), gclid its click identifier.
Event(id, g) == [id |-> id, gclid |-> g]

\* Every chunk of 0..MaxBatch events.
Chunks ==
    UNION { { [k \in 1..n |-> Event(k, gs[k])] : gs \in [1..n -> Gclids] } :
            n \in 0..MaxBatch }

\* ------------------------------------------------------------ the endpoint

\* conversion_upload_response.results: one result per submitted record, an
\* empty message for a record that was not accepted.
ResultOf(ev, o) ==
    IF o = "acc" THEN [gclid |-> ev.gclid, set |-> TRUE]
                 ELSE [gclid |-> "", set |-> FALSE]

\* One error of partial_failure_error for a rejected record at position p
\* (the index in the response is zero-based).
ErrorOf(p, o) ==
    [index |-> p - 1,
     message |-> IF o = "retry" THEN RecoverableMessage ELSE OtherMessage,
     error_code |-> IF o = "retry" THEN "precedes_click" ELSE "other_code"]

\* The positions the endpoint reports an error for, in increasing order.
RejectedPositions(out) ==
    SelectSeq([k \in 1..Len(out) |-> k],
              LAMBDA p : out[p] \in {"retry", "perm"})

\* The response of the endpoint to batch d when it decides out for it.
Respond(d, out) ==
    LET rejected == RejectedPositions(out)
    IN  [results |-> [p \in 1..Len(d) |-> ResultOf(d[p], out[p])],
         errors  |-> [k \in 1..Len(rejected) |->
                        ErrorOf(rejected[k], out[rejected[k]])]]

\* send_batch_events.py:175  a response that carries every error twice:
\* several errors for the same index
Doubled(resp) ==
    [resp EXCEPT !.errors =
        [k \in 1..(2 * Len(resp.errors)) |-> resp.errors[(k + 1) \div 2]]]

NoResponse == [results |-> << >>, errors |-> << >>]

\* ------------------------------------------- SendBatchEvents, the helpers

\* send_batch_events.py:74-78  the gclids of the accepted results
AcceptedClicks(resp) ==
    {resp.results[k].gclid : k \in 1..Len(resp.results)} \ {""}

\* send_batch_events.py:217-236  the payload rebuilt from a record
RetryPayload(ev) ==
    [id |-> ev.id, click_id |-> ev.gclid, keys |-> RetryPayloadKeys]

\* send_batch_events.py:197-238  __map_not_accepted_clicks
MapNotAcceptedClicks(d, clicks) ==
    LET kept == SelectSeq(d, LAMBDA ev : ev.gclid \notin clicks)
    IN  [k \in 1..Len(kept) |-> RetryPayload(kept[k])]

\* send_batch_events.py:178-181  the test for the recoverable reason
IsRecoverable(err) == err.message = RecoverableMessage

\* send_batch_events.py:183-185  attempted_clicks[index] raises IndexError
ParseRaises(attempted, resp) ==
    \E k \in 1..Len(resp.errors) :
        /\ IsRecoverable(resp.errors[k])
        /\ resp.errors[k].index + 1 > Len(attempted)

\* send_batch_events.py:182-186  clicks_to_send_again
ClicksToSendAgain(attempted, resp) ==
    LET rec == SelectSeq(resp.errors, IsRecoverable)
    IN  [k \in 1..Len(rec) |-> attempted[rec[k].index + 1]]

\* send_batch_events.py:188-194  one entry of partial_errors_list
ErrorEntry(err) ==
    [position |-> err.index + 1, message |-> err.message,
     error_code |-> err.error_code]

\* An error list that records only the errors without the recoverable
\* message (the append placed in an else branch).
PartialErrorsListOfPermanent(resp) ==
    LET perm == SelectSeq(resp.errors,
                          LAMBDA err : err.message # RecoverableMessage)
    IN  [k \in 1..Len(perm) |->
            [position |-> perm[k].index + 1, message |-> perm[k].message,
             error_code |-> perm[k].error_code]]

\* send_batch_events.py:188-194  partial_errors_list: an entry for every error
PartialErrorsList(resp) ==
    [k \in 1..Len(resp.errors) |-> ErrorEntry(resp.errors[k])]

\* send_batch_events.py:91  the test that ends the loop
IsTerminal(attempted, d, again) ==
    Len(attempted) = Len(d) /\ again = << >>

\* send_batch_events.py:92-95 and 109-112  the returned dict
Report(errs, resp) ==
    [partial_errors_list |-> errs,
     conversion_upload_response_results |-> resp.results]

NoReport ==
    [partial_errors_list |-> << >>, conversion_upload_response_results |-> << >>]

\* ------------------------------------------------- EventCreator, the mapper

\* A mapper that reads only keys the retry payload carries.
MapperReadsRetryKeys(payload) ==
    ~({"currency", "value", "click_id"} \subseteq payload.keys)

\* event_creator.py:80-111  __mapper: reading a key the input lacks raises
\* (KeyError, rethrown as ValueError)
MapperRaises(payload) == ~(MapperKeys \subseteq payload.keys)

\* event_creator.py:97-107  the event built from a payload (its click id is
\* the payload's click_id)
Mapper(payload) == Event(payload.id, payload.click_id)

\* event_creator.py:59-68 and workers.py:129-134  map_data fails as a whole
\* when one mapping raises
MapDataRaises(payloads) ==
    \E k \in 1..Len(payloads) : MapperRaises(payloads[k])

\* workers.py:119-129  the mapped events, in the order as_completed yields
\* them
MapData(payloads) ==
    Perms([k \in 1..Len(payloads) |-> Mapper(payloads[k])])

\* ------------------------------------------------------------------ state

\* SendBatchEvents.__send_events
VARIABLES
    pc,                     \* where the invocation is
    kwargs,                 \* the names of the keyword arguments passed
    data,                   \* the batch to submit (parameter, then line 97)
    i,                      \* line 60: rounds completed
    response,               \* conversion_upload_response of this round
    attempted_clicks,       \* line 80
    clicks_to_send_again,   \* line 84
    partial_errors_list,    \* line 84
    report,                 \* the returned dict
    raisedBy,               \* the exception that ended the invocation
    \* history, read by the properties only
    chunk,                  \* the chunk the invocation was given
    nsub,                   \* calls of upload_click_conversions so far
    outcome,                \* what the endpoint decided in this round
    first,                  \* the first round: its batch and the decisions
    prevAccepted,           \* ids accepted in a round before this one
    everAccepted,           \* ids accepted in any round
    everPermIds,            \* ids permanently rejected in any round
    everPermEntries,        \* the entries of those rejections
    lastRetryIds,           \* ids rejected as retryable in this round
    remaps                  \* times the loop went on to remap (line 97)

uploaderVars ==
    <<pc, kwargs, data, i, response, attempted_clicks, clicks_to_send_again,
      partial_errors_list, report, raisedBy, chunk, nsub, outcome, first,
      prevAccepted, everAccepted, everPermIds, everPermEntries, lastRetryIds,
      remaps>>


locals == <<attempted_clicks, clicks_to_send_again, partial_errors_list>>

history ==
    <<chunk, nsub, outcome, first, prevAccepted, everAccepted, everPermIds,
      everPermEntries, lastRetryIds, remaps>>

NoFirst == [batch |-> << >>, out |-> << >>]

\* DataSplitter
VARIABLES
    sp_pc,                  \* where the DataSplitter is
    data_to_split,          \* data_splitter.py:25
    num_of_splits,          \* data_splitter.py:26
    list_of_chunks,         \* what split_data_into_chunks returned
    sp_error                \* the message of the error that ended it

splitterVars ==
    <<sp_pc, data_to_split, num_of_splits, list_of_chunks, sp_error>>

\* DataMapperThreadedWorker / EventMapperThreadedWorker
VARIABLES
    tr_pc,                  \* where the call of run_threaded_tasks is
    rows,                   \* workers.py:95  data_to_process
    task_state,             \* per task: "queued" or "done"
    task_result,            \* per task: what its future holds
    completed,              \* the tasks in the order they completed
    tr_result,              \* the list run_threaded_tasks returned
    tr_error                \* the exception run_threaded_tasks raised

runnerVars ==
    <<tr_pc, rows, task_state, task_result, completed, tr_result, tr_error>>

\* run (main.py) and the Service it drives
VARIABLES
    pl_pc,                  \* where run is
    table,                  \* what the query answers: an error, or the rows
    pl_data,                \* main.py:32  data
    ld_state,               \* per chunk: the state of its upload task
    ld_result,              \* per chunk: how its upload task ended
    pl_error,               \* the exception that ended run
    pl_return,              \* the string run returned
    auth_cache,             \* service.py:67  lru_cache of __authenticated_client
    handles_built,          \* how many handles auth_client has returned
    mapper_client,          \* service.py:82  client given to EventCreator
    loader_client           \* service.py:98  client given to send_batch_events

clientVars == <<auth_cache, handles_built, mapper_client, loader_client>>

pipelineVars ==
    <<pl_pc, table, pl_data, ld_state, ld_result, pl_error, pl_return,
      clientVars>>

\* BQFieldstValidator
VARIABLES
    val_pc,                 \* where the validation of one row is
    val_row,                \* the row handed to BQFieldstValidator
    val_dict                \* .dict() of the validated model

validatorVars == <<val_pc, val_row, val_dict>>

\* Two upload tasks of one send_batch_events call
VARIABLES
    up_pc,                  \* per task: where its __send_events is
    up_chunk,               \* per task: the chunk it was given
    frames,                 \* per call frame: the locals of __send_events
    up_report,              \* per task: the dict it returned
    \* history, read by the properties only
    sent,                   \* per task: the batch of its last submission
    answers                 \* per task: the endpoint's answer to it

poolVars == <<up_pc, up_chunk, frames, up_report, sent, answers>>

\* The identifier loop of __map_not_accepted_clicks, for one record
VARIABLES
    id_pc,                  \* where the loop is
    user_identifiers,       \* send_batch_events.py:230  click.user_identifiers
    id_k,                   \* how many identifiers the loop has taken
    data_to_retry           \* send_batch_events.py:217  email and phone of it

identifierVars == <<id_pc, user_identifiers, id_k, data_to_retry>>

\* The components run takes no part in.
sideVars == <<validatorVars, poolVars, identifierVars>>

\* What the validation of a row leaves alone.
exceptValidator ==
    <<uploaderVars, splitterVars, runnerVars, pipelineVars, poolVars,
      identifierVars>>

\* What the upload tasks running side by side leave alone.
exceptPool ==
    <<uploaderVars, splitterVars, runnerVars, pipelineVars, validatorVars,
      identifierVars>>

\* What the identifier loop leaves alone.
exceptIdentifiers ==
    <<uploaderVars, splitterVars, runnerVars, pipelineVars, validatorVars,
      poolVars>>

vars == <<uploaderVars, splitterVars, runnerVars, pipelineVars, sideVars>>

\* What the actions of __send_events leave alone.
others == <<splitterVars, runnerVars, pipelineVars, sideVars>>

\* What the actions of the DataSplitter leave alone.
exceptSplitter == <<uploaderVars, runnerVars, pipelineVars, sideVars>>

\* What the actions of run_threaded_tasks leave alone.
exceptRunner == <<uploaderVars, splitterVars, pipelineVars, sideVars>>

\* What the steps of run itself leave alone.
exceptPipeline == <<uploaderVars, splitterVars, runnerVars, sideVars>>

\* ---------------------------------------------------------- DataSplitter

\* The elements of the lists handed to the DataSplitter.
Items == {"a", "b"}

\* data_splitter.py:12  data_to_split: a list, or a value that is no list
SplitInputs ==
    {[is_list |-> FALSE, items |-> << >>]} \cup
    UNION { { [is_list |-> TRUE, items |-> l] : l \in [1..n -> Items] } :
            n \in 0..MaxList }

\* data_splitter.py:12  num_of_splits: negative, zero or positive
SplitSizes == {-1} \cup 0..MaxSplits

\* A slice that runs one element too far: l[start : start + size + 1].
SliceOneTooFar(l, start, size) ==
    SubSeq(l, start + 1,
           IF start + size + 1 < Len(l) THEN start + size + 1 ELSE Len(l))

\* data_splitter.py:72  the slice l[start : start + size] of a list, start
\* counted from 0 as in the code
Slice(l, start, size) ==
    SubSeq(l, start + 1, IF start + size < Len(l) THEN start + size ELSE Len(l))

\* A range that includes its stop value: range(0, len(l) + 1, size).
StartsThroughTheEnd(l, size) ==
    SelectSeq([k \in 1..(Len(l) + 1) |-> k - 1], LAMBDA a : a % size = 0)

\* data_splitter.py:73  range(0, len(l), size), as an increasing sequence
Starts(l, size) ==
    SelectSeq([k \in 1..Len(l) |-> k - 1], LAMBDA a : a % size = 0)

\* data_splitter.py:70-74  the chunks __split_data builds
SplitData(l, size) ==
    LET st == Starts(l, size)
    IN  [c \in 1..Len(st) |-> Slice(l, st[c], size)]

\* A splitter without the emptiness check: it never raises.
SplitNeverRaises(chunks) == FALSE

\* data_splitter.py:83-85  "if not list_of_chunks": nothing to split
SplitRaises(chunks) == chunks = << >>

\* data_splitter.py:102-106  what __validate_input raises, "none" if nothing
ValidateInput(input, size) ==
    IF ~input.is_list THEN "Input data must be a list."
    ELSE IF size <= 0 THEN "Number of splits must be greater than 0."
    ELSE "none"

\* send_batch_events.py:226-227  "email": None, "phone": None
NoIdentifierTaken == [email |-> "None", phone |-> "None"]

\* No record is rebuilt for a retry on its own in this behaviour.
IdentifiersIdle ==
    /\ id_pc = "idle"
    /\ user_identifiers = << >>
    /\ id_k = 0
    /\ data_to_retry = NoIdentifierTaken

\* No two upload tasks run side by side in this behaviour.
PoolIdle ==
    /\ up_pc = << >>
    /\ up_chunk = << >>
    /\ frames = << >>
    /\ up_report = << >>
    /\ sent = << >>
    /\ answers = << >>

\* No row is validated in this behaviour.
ValidatorIdle ==
    /\ val_pc = "idle"
    /\ val_row = [keys |-> {}, fields |-> << >>]
    /\ val_dict = [keys |-> {}, fields |-> << >>]

\* bing_client.py:126  no handle: auth_client has not returned
NoHandle == [id |-> 0, oauth_tokens |-> "none"]

\* bing_client.py:145-159  the n-th AuthorizationData auth_client returns
NewHandle(n) == [id |-> n, oauth_tokens |-> "issued"]

\* A client property without the cache: every read authenticates again.
AuthenticatedClientUncached(cache, built) == NewHandle(built + 1)

\* service.py:50-52, 67-69  Service.client: the cached handle, or a new one
\* when the cache of __authenticated_client is empty
AuthenticatedClient(cache, built) ==
    IF cache # NoHandle THEN cache ELSE NewHandle(built + 1)

\* run is not invoked in this behaviour.
PipelineIdle ==
    /\ pl_pc = "idle"
    /\ table = [query |-> "ok", rows |-> << >>]
    /\ pl_data = << >>
    /\ ld_state = << >>
    /\ ld_result = << >>
    /\ pl_error = "none"
    /\ pl_return = "none"
    /\ auth_cache = NoHandle
    /\ handles_built = 0
    /\ mapper_client = NoHandle
    /\ loader_client = NoHandle

\* No call of run_threaded_tasks in this behaviour.
RunnerIdle ==
    /\ tr_pc = "idle"
    /\ rows = << >>
    /\ task_state = << >>
    /\ task_result = << >>
    /\ completed = << >>
    /\ tr_result = << >>
    /\ tr_error = "none"

\* No DataSplitter in this behaviour.
SplitterIdle ==
    /\ sp_pc = "idle"
    /\ data_to_split = [is_list |-> TRUE, items |-> << >>]
    /\ num_of_splits = 0
    /\ list_of_chunks = << >>
    /\ sp_error = "none"

\* data_splitter.py:12-27  DataSplitter(data_to_split, num_of_splits) is
\* about to be constructed
InitSplitter ==
    /\ sp_pc = "new"
    /\ data_to_split \in SplitInputs
    /\ num_of_splits \in SplitSizes
    /\ list_of_chunks = << >>
    /\ sp_error = "none"

\* data_splitter.py:25-27, 94-106  the constructor validates its input
SplitterConstruct ==
    /\ sp_pc = "new"
    /\ sp_error' = ValidateInput(data_to_split, num_of_splits)
    /\ sp_pc' = IF sp_error' = "none" THEN "constructed" ELSE "value_error"
    /\ UNCHANGED <<data_to_split, num_of_splits, list_of_chunks>>
    /\ UNCHANGED exceptSplitter

\* data_splitter.py:39-51, 66-92 and workers.py:54-79  split_data_into_chunks
\* runs __split_data on a worker and returns its result; an exception of
\* the task is raised again as RuntimeError
SplitDataIntoChunks ==
    /\ sp_pc = "constructed"
    /\ LET chunks == SplitData(data_to_split.items, num_of_splits)
       IN  \/ /\ SplitRaises(chunks)
              /\ sp_pc' = "raised"
              /\ sp_error' = "There is no data to split"
              /\ UNCHANGED list_of_chunks
           \/ /\ ~SplitRaises(chunks)
              /\ sp_pc' = "returned"
              /\ list_of_chunks' = chunks
              /\ UNCHANGED sp_error
    /\ UNCHANGED <<data_to_split, num_of_splits>>
    /\ UNCHANGED exceptSplitter

\* ------------------------------------- SendBatchEvents.__send_events

\* ------------------------------------ run_threaded_tasks over a collection

\* validators.py:25-32  the fields of a validated raw row
RawRowKeys ==
    {"conversion_time", "transaction_id", "email", "phone", "conversion_name",
     "currency", "click_id", "value"}

\* validators.py:25-32  the fields without a default: all but click_id
RequiredFields == RawRowKeys \ {"click_id"}

\* The key sets of the rows handed to the mapper: complete, or one key short.
RowKeySets == {RawRowKeys} \cup { RawRowKeys \ {k} : k \in RawRowKeys }

\* The rows differ in the values they carry.
RowTags == {"r1", "r2"}

\* A raw row: the value of field k of the row tagged t is <<t, k>>.
Row(tag, keys) == [keys |-> keys, fields |-> [k \in keys |-> <<tag, k>>]]

\* validators.py:31  the default of click_id: None
NoneValue == <<"None", "None">>

\* A complete row whose click_id is null.
RowWithNullClickId(tag) ==
    [keys   |-> RawRowKeys,
     fields |-> [k \in RawRowKeys |->
                    IF k = "click_id" THEN NoneValue ELSE <<tag, k>>]]

RawRows ==
    { Row(t, ks) : t \in RowTags, ks \in RowKeySets }
        \cup { RowWithNullClickId(t) : t \in RowTags }

\* workers.py:95  data_to_process, a list of rows
RowLists == UNION { [1..n -> RawRows] : n \in 0..MaxTasks }

\* A mapper that takes the conversion value from the currency field.
MappedFieldsSwapped(row) ==
    [ConversionCurrencyCode |-> row.fields["currency"],
     ConversionName         |-> row.fields["conversion_name"],
     ConversionTime         |-> row.fields["conversion_time"],
     ConversionValue        |-> row.fields["currency"],
     MicrosoftClickId       |-> row.fields["click_id"]]

\* event_creator.py:86-97  the fields __mapper sets on the OfflineConversion
MappedFields(row) ==
    [ConversionCurrencyCode |-> row.fields["currency"],
     ConversionName         |-> row.fields["conversion_name"],
     ConversionTime         |-> row.fields["conversion_time"],
     ConversionValue        |-> row.fields["value"],
     MicrosoftClickId       |-> row.fields["click_id"]]

\* event_creator.py:109-111  what __mapper raises
MappingError == [error |-> "ValueError"]

\* What the future of a task that has not finished holds.
Pending == [ok |-> FALSE, value |-> [error |-> "pending"]]

\* event_creator.py:70-111  what the future of the task mapping a row holds
\* once the task has run: the event, or the exception
TaskOutcome(row) ==
    IF MapperRaises(row)
    THEN [ok |-> FALSE, value |-> MappingError]
    ELSE [ok |-> TRUE, value |-> MappedFields(row)]

\* An executor that is left without waiting for its tasks.
JoinWithoutWait(states) == TRUE

\* workers.py:113-123  leaving the "with ThreadPoolExecutor()" block calls
\* shutdown(wait=True): it returns when every submitted task has finished
JoinReady(states) == \A k \in DOMAIN states : states[k] = "done"

\* A collection that swallows the exceptions of the tasks.
CollectNeverRaises(states, results) == FALSE

\* workers.py:129  f.result() re-raises the exception of a failed task
CollectRaises(states, results) ==
    \E k \in DOMAIN results : states[k] = "done" /\ ~results[k].ok

\* workers.py:129  [f.result() for f in cf.as_completed(result_futures)]
\* for the futures taken in the given order
Collected(order, results) ==
    [j \in 1..Len(order) |-> results[order[j]].value]

\* An as_completed that may yield a future twice and another one never.
YieldOrdersWithRepeats(n) == [1..n -> 1..n]

\* workers.py:129  the orders as_completed can yield the futures in: all have
\* finished when it is called, and it takes them from a set
YieldOrders(n) == Perms([k \in 1..n |-> k])

\* The call of run_threaded_tasks (EventCreator.map_data) is about to be made.
InitRunner ==
    /\ tr_pc = "new"
    /\ rows \in RowLists
    /\ task_state = [k \in 1..Len(rows) |-> "none"]
    /\ task_result = [k \in 1..Len(rows) |-> Pending]
    /\ completed = << >>
    /\ tr_result = << >>
    /\ tr_error = "none"

\* workers.py:113-122  one task per item is submitted to the executor
RunnerSubmit ==
    /\ tr_pc = "new"
    /\ tr_pc' = "running"
    /\ task_state' = [k \in 1..Len(rows) |-> "queued"]
    /\ UNCHANGED <<rows, task_result, completed, tr_result, tr_error>>
    /\ UNCHANGED exceptRunner

\* workers.py:119-122  a worker thread runs one submitted task to its end
TaskRuns ==
    /\ tr_pc = "running"
    /\ \E k \in DOMAIN task_state :
        /\ task_state[k] = "queued"
        /\ task_state' = [task_state EXCEPT ![k] = "done"]
        /\ task_result' = [task_result EXCEPT ![k] = TaskOutcome(rows[k])]
        /\ completed' = Append(completed, k)
    /\ UNCHANGED <<tr_pc, rows, tr_result, tr_error>>
    /\ UNCHANGED exceptRunner

\* workers.py:113-123  the with block is left
RunnerJoin ==
    /\ tr_pc = "running"
    /\ JoinReady(task_state)
    /\ tr_pc' = "joined"
    /\ UNCHANGED <<rows, task_state, task_result, completed, tr_result,
                   tr_error>>
    /\ UNCHANGED exceptRunner

\* workers.py:129  every f.result() returns: the list is returned
RunnerReturns ==
    /\ tr_pc = "joined"
    /\ ~CollectRaises(task_state, task_result)
    /\ \E order \in YieldOrders(Len(rows)) :
        tr_result' = Collected(order, task_result)
    /\ tr_pc' = "returned"
    /\ UNCHANGED <<rows, task_state, task_result, completed, tr_error>>
    /\ UNCHANGED exceptRunner

\* workers.py:129-134  an f.result() raises: RuntimeError, chained to it
RunnerRaises ==
    /\ tr_pc = "joined"
    /\ CollectRaises(task_state, task_result)
    /\ tr_pc' = "raised"
    /\ tr_error' = "RuntimeError"
    /\ UNCHANGED <<rows, task_state, task_result, completed, tr_result>>
    /\ UNCHANGED exceptRunner

\* ----------------------------------------------------- BQFieldstValidator

\* validators.py:25, 26, 32  the fields declared datetime, int and float:
\* a string spelling such a value is parsed into it
ParsedFields == {"conversion_time", "transaction_id", "value"}

\* What a value is: "r1", "r2" are values of the declared type, "text" is a
\* string spelling one, "junk" is a value the declared type cannot be made
\* from.
ValueTags == RowTags \cup {"text", "junk"}

\* A validator that accepts a row whatever fields it carries.
ValidatorAcceptsAnything(row) == TRUE

\* validators.py:25-32  BQFieldstValidator(**row) succeeds: every field
\* without default is there, every declared field can be made of its type
ValidatorAccepts(row) ==
    /\ RequiredFields \subseteq row.keys
    /\ \A k \in row.keys \cap RawRowKeys : row.fields[k][1] # "junk"

\* validators.py:25-32  the value the model stores for a declared field
Coerced(k, v) ==
    IF v[1] = "text" /\ k \in ParsedFields THEN <<"parsed", v[2]>> ELSE v

\* validators.py:9-32  .dict() of the validated model: the declared fields
\* only, click_id defaulted to None
ValidatedDict(row) ==
    [keys   |-> RawRowKeys,
     fields |-> [k \in RawRowKeys |->
                    IF k \in row.keys THEN Coerced(k, row.fields[k])
                    ELSE NoneValue]]

\* extract_test.py:37-52  the fields of the row the test validates
TestKeys ==
    {"date", "email", "value", "event_id", "event_name", "zipcode",
     "last_name", "first_name", "country", "fb_phone", "fb_click_id",
     "client_user_agent", "client_ip_address", "event_source_url"}

\* Columns a table can carry besides the declared ones.
ExtraFields == {"date", "event_id"}

\* The rows handed to the validator: the declared fields, one of them
\* missing, one more column, or the row of the test.
ValidatorKeySets ==
    RowKeySets \cup { RawRowKeys \cup {e} : e \in ExtraFields } \cup {TestKeys}

ValidatorRows == { Row(t, ks) : t \in ValueTags, ks \in ValidatorKeySets }

\* A row is about to be validated.
InitValidator ==
    /\ val_pc = "new"
    /\ val_row \in ValidatorRows
    /\ val_dict = [keys |-> {}, fields |-> << >>]

\* extract_test.py:55, bigquery_client.py:142  BQFieldstValidator(**row)
Validate ==
    /\ val_pc = "new"
    /\ val_pc' = IF ValidatorAccepts(val_row) THEN "accepted" ELSE "rejected"
    /\ UNCHANGED <<val_row, val_dict>>
    /\ UNCHANGED exceptValidator

\* extract_test.py:58  validated_data.dict()
Dump ==
    /\ val_pc = "accepted"
    /\ val_pc' = "dumped"
    /\ val_dict' = ValidatedDict(val_row)
    /\ UNCHANGED val_row
    /\ UNCHANGED exceptValidator

\* --------------------------------------------------------- run, the Service

\* An extraction without the test for an empty result.
NoRowsNever(rs) == FALSE

\* bigquery_client.py:136  results.total_rows == 0
NoRows(rs) == Len(rs) = 0

\* What the query of read_data can answer.
Tables == { [query |-> q, rows |-> rs] : q \in {"ok", "error"}, rs \in RowLists }

\* service.py:97-99  the keyword arguments load_data hands to the upload tasks
LoadKwargs == {"client"}

\* main.py:40  str(loader), loader being the list of the chunks' reports
StrOfLoader == "str(list of reports)"

\* service.py:82-83  map_data has returned or raised
MappingOver(p) == p \in {"returned", "raised"}

\* send_batch_events.py:52-57  how __send_events starts for a chunk: the
\* error it raises at once, or "submit" when it enters the loop
SendEventsEntry(d, kw) ==
    IF d = << >> THEN "ValueError"
    ELSE IF ~(KwargNames \subseteq kw) THEN "KeyError"
    ELSE "submit"

\* run is invoked (main.py:8).
InitPipeline ==
    /\ pl_pc = "request"
    /\ table \in Tables
    /\ pl_data = << >>
    /\ ld_state = << >>
    /\ ld_result = << >>
    /\ pl_error = "none"
    /\ pl_return = "none"
    /\ auth_cache = NoHandle
    /\ handles_built = 0
    /\ mapper_client = NoHandle
    /\ loader_client = NoHandle

\* main.py:29-31, service.py:37-48  the Service and its BigQuery client
ServiceConstruct ==
    /\ pl_pc = "request"
    /\ pl_pc' = "service"
    /\ UNCHANGED <<table, pl_data, ld_state, ld_result, pl_error, pl_return>>
    /\ UNCHANGED clientVars
    /\ UNCHANGED exceptPipeline

\* bigquery_client.py:113-119  bigquery.Client cannot be created
ServiceConstructFails ==
    /\ pl_pc = "request"
    /\ pl_pc' = "raised"
    /\ pl_error' = "Failed to create BigQuery client"
    /\ UNCHANGED <<table, pl_data, ld_state, ld_result, pl_return>>
    /\ UNCHANGED clientVars
    /\ UNCHANGED exceptPipeline

\* main.py:32, bigquery_client.py:121-148  read_data
ExtractData ==
    /\ pl_pc = "service"
    /\ IF table.query = "error"
       THEN /\ pl_pc' = "raised"
            /\ pl_error' = "QueryError"
            /\ UNCHANGED pl_data
       ELSE IF NoRows(table.rows)
       THEN /\ pl_pc' = "raised"
            /\ pl_error' = "EmptyTableException"
            /\ UNCHANGED pl_data
       ELSE IF table.rows = << >>
       THEN /\ pl_pc' = "raised"
            /\ pl_error' = "IndexError"
            /\ UNCHANGED pl_data
       ELSE IF ~ValidatorAccepts(table.rows[1])
       THEN /\ pl_pc' = "raised"
            /\ pl_error' = "ValidationError"
            /\ UNCHANGED pl_data
       ELSE /\ pl_pc' = "extracted"
            /\ pl_data' = table.rows
            /\ UNCHANGED pl_error
    /\ UNCHANGED <<table, ld_state, ld_result, pl_return>>
    /\ UNCHANGED clientVars
    /\ UNCHANGED exceptPipeline

\* service.py:50-56, 67-69  the Bing client cannot be authenticated
AuthenticationFails ==
    /\ pl_pc = "extracted"
    /\ pl_pc' = "raised"
    /\ pl_error' = "AuthenticationError"
    /\ UNCHANGED <<table, pl_data, ld_state, ld_result, pl_return>>
    /\ UNCHANGED clientVars
    /\ UNCHANGED exceptPipeline

\* main.py:33, service.py:82  transform_data reads Service.client and calls
\* map_data over the rows
StartMapping ==
    /\ pl_pc = "extracted"
    /\ tr_pc = "idle"
    /\ pl_pc' = "mapping"
    /\ tr_pc' = "new"
    /\ rows' = pl_data
    /\ task_state' = [k \in 1..Len(pl_data) |-> "none"]
    /\ task_result' = [k \in 1..Len(pl_data) |-> Pending]
    /\ LET client == AuthenticatedClient(auth_cache, handles_built)
       IN  /\ auth_cache' = client
           /\ handles_built' = IF client = auth_cache THEN handles_built
                                                      ELSE handles_built + 1
           /\ mapper_client' = client
    /\ UNCHANGED loader_client
    /\ UNCHANGED <<completed, tr_result, tr_error>>
    /\ UNCHANGED <<table, pl_data, ld_state, ld_result, pl_error, pl_return>>
    /\ UNCHANGED <<uploaderVars, splitterVars, sideVars>>

\* service.py:82-85  map_data is over: its exception ends run, its events go
\* to a DataSplitter
MappingEnds ==
    /\ pl_pc = "mapping"
    /\ MappingOver(tr_pc)
    /\ IF tr_pc = "raised"
       THEN /\ pl_pc' = "raised"
            /\ pl_error' = "RuntimeError"
            /\ UNCHANGED splitterVars
       ELSE /\ pl_pc' = "chunking"
            /\ sp_pc' = "new"
            /\ data_to_split' = [is_list |-> TRUE, items |-> tr_result]
            /\ num_of_splits' = PipelineSplits
            /\ UNCHANGED <<list_of_chunks, sp_error, pl_error>>
    /\ UNCHANGED <<table, pl_data, ld_state, ld_result, pl_return>>
    /\ UNCHANGED clientVars
    /\ UNCHANGED <<uploaderVars, runnerVars, sideVars>>

\* service.py:83-85, main.py:33-35  the DataSplitter is over: its exception
\* ends run, its chunks go to load_data, which reads Service.client
\* (service.py:97-99) and starts one upload task per chunk
\* (send_batch_events.py:32-34, workers.py:169-178)
ChunkingEnds ==
    /\ pl_pc = "chunking"
    /\ sp_pc \in {"returned", "raised", "value_error"}
    /\ IF sp_pc = "returned"
       THEN /\ pl_pc' = "loading"
            /\ ld_state' = [c \in 1..Len(list_of_chunks) |-> "queued"]
            /\ ld_result' = [c \in 1..Len(list_of_chunks) |-> "none"]
            /\ LET client == AuthenticatedClient(auth_cache, handles_built)
               IN  /\ auth_cache' = client
                   /\ handles_built' =
                         IF client = auth_cache THEN handles_built
                                                ELSE handles_built + 1
                   /\ loader_client' = client
            /\ UNCHANGED <<pl_error, mapper_client>>
       ELSE /\ pl_pc' = "raised"
            /\ pl_error' = IF sp_pc = "raised" THEN "RuntimeError"
                                               ELSE "ValueError"
            /\ UNCHANGED <<ld_state, ld_result, clientVars>>
    /\ UNCHANGED <<table, pl_data, pl_return>>
    /\ UNCHANGED exceptPipeline

\* workers.py:175-178, send_batch_events.py:36-115  a worker thread runs the
\* upload task of one chunk to its end
LoadTaskRuns ==
    /\ pl_pc = "loading"
    /\ \E c \in DOMAIN ld_state :
        /\ ld_state[c] = "queued"
        /\ ld_state' = [ld_state EXCEPT ![c] = "done"]
        /\ LET entry == SendEventsEntry(list_of_chunks[c], LoadKwargs)
           IN  IF entry = "submit"
               THEN \E end \in {"report", "RuntimeError"} :
                        ld_result' = [ld_result EXCEPT ![c] = end]
               ELSE ld_result' = [ld_result EXCEPT ![c] = entry]
    /\ UNCHANGED <<pl_pc, table, pl_data, pl_error, pl_return>>
    /\ UNCHANGED clientVars
    /\ UNCHANGED exceptPipeline

\* workers.py:169-190, main.py:35-40  the upload tasks are joined: the first
\* exception ends run with RuntimeError, otherwise run returns str(loader)
LoadEnds ==
    /\ pl_pc = "loading"
    /\ \A c \in DOMAIN ld_state : ld_state[c] = "done"
    /\ IF \E c \in DOMAIN ld_result : ld_result[c] # "report"
       THEN /\ pl_pc' = "raised"
            /\ pl_error' = "RuntimeError"
            /\ UNCHANGED pl_return
       ELSE /\ pl_pc' = "returned"
            /\ pl_return' = StrOfLoader
            /\ UNCHANGED pl_error
    /\ UNCHANGED <<table, pl_data, ld_state, ld_result>>
    /\ UNCHANGED clientVars
    /\ UNCHANGED exceptPipeline

\* ------------------------------ the identifier loop of the retry payload

\* Values an identifier carries in hashed_email and in hashed_phone_number;
\* "" is the field left unset.
HashedEmails == {"", "e1", "e2"}

HashedPhones == {"", "p1", "p2"}

\* send_batch_events.py:230  the identifiers of one record
UserIdentifiers ==
    { [hashed_email |-> e, hashed_phone_number |-> ph] :
        e \in HashedEmails, ph \in HashedPhones }

\* send_batch_events.py:231-234  the body of the loop for one identifier
TakeIdentifier(payload, identifier) ==
    IF identifier.hashed_email # ""
    THEN [payload EXCEPT !.email = identifier.hashed_email]
    ELSE [payload EXCEPT !.phone = identifier.hashed_phone_number]

InitIdentifiers ==
    /\ id_pc = "start"
    /\ user_identifiers \in
          UNION { [1..n -> UserIdentifiers] : n \in 0..MaxIdentifiers }
    /\ id_k = 0
    /\ data_to_retry = NoIdentifierTaken

\* send_batch_events.py:217-228  the payload is created, email and phone None
CreatePayload ==
    /\ id_pc = "start"
    /\ id_pc' = "loop"
    /\ data_to_retry' = NoIdentifierTaken
    /\ UNCHANGED <<user_identifiers, id_k>>
    /\ UNCHANGED exceptIdentifiers

\* send_batch_events.py:230-234  one turn of the loop
NextIdentifier ==
    /\ id_pc = "loop"
    /\ id_k < Len(user_identifiers)
    /\ id_k' = id_k + 1
    /\ data_to_retry' = TakeIdentifier(data_to_retry, user_identifiers[id_k + 1])
    /\ UNCHANGED <<id_pc, user_identifiers>>
    /\ UNCHANGED exceptIdentifiers

\* send_batch_events.py:236  the loop is over and the payload is appended
AppendPayload ==
    /\ id_pc = "loop"
    /\ id_k = Len(user_identifiers)
    /\ id_pc' = "appended"
    /\ UNCHANGED <<user_identifiers, id_k, data_to_retry>>
    /\ UNCHANGED exceptIdentifiers

\* No invocation of __send_events in this behaviour.
UploaderIdle ==
    /\ pc = "idle"
    /\ kwargs = {}
    /\ data = << >>
    /\ chunk = << >>
    /\ i = 0
    /\ response = NoResponse
    /\ attempted_clicks = << >>
    /\ clicks_to_send_again = << >>
    /\ partial_errors_list = << >>
    /\ report = NoReport
    /\ raisedBy = "none"
    /\ nsub = 0
    /\ outcome = << >>
    /\ first = NoFirst
    /\ prevAccepted = {}
    /\ everAccepted = {}
    /\ everPermIds = {}
    /\ everPermEntries = {}
    /\ lastRetryIds = {}
    /\ remaps = 0

Init ==
    /\ SplitterIdle
    /\ RunnerIdle
    /\ PipelineIdle
    /\ ValidatorIdle
    /\ PoolIdle
    /\ IdentifiersIdle
    /\ pc = "start"
    /\ kwargs \in SUBSET KwargNames
    /\ data \in Chunks
    /\ chunk = data
    /\ i = 0
    /\ response = NoResponse
    /\ attempted_clicks = << >>
    /\ clicks_to_send_again = << >>
    /\ partial_errors_list = << >>
    /\ report = NoReport
    /\ raisedBy = "none"
    /\ nsub = 0
    /\ outcome = << >>
    /\ first = NoFirst
    /\ prevAccepted = {}
    /\ everAccepted = {}
    /\ everPermIds = {}
    /\ everPermEntries = {}
    /\ lastRetryIds = {}
    /\ remaps = 0

\* A handler inside the loop that swallows the exception and sends again.
ExceptHandlerSendsAgain == "submit"

\* send_batch_events.py:113-115  an exception inside the loop ends the
\* invocation with RuntimeError
ExceptHandler == "raised"

\* ---------------------------------------------------------------- actions

\* send_batch_events.py:52-60  the empty chunk is refused and the keyword
\* arguments are read before the loop (outside the try)
Start ==
    /\ pc = "start"
    /\ \/ /\ data = << >>
          /\ pc' = "value_error"
          /\ raisedBy' = "ValueError"
       \/ /\ data # << >>
          /\ ~(KwargNames \subseteq kwargs)
          /\ pc' = "key_error"
          /\ raisedBy' = "KeyError"
       \/ /\ data # << >>
          /\ KwargNames \subseteq kwargs
          /\ pc' = "submit"
          /\ raisedBy' = raisedBy
    /\ UNCHANGED <<others, kwargs, data, i, response, locals, report, history>>

\* send_batch_events.py:63-72  the batch is sent and the endpoint answers
SubmitAnswered ==
    /\ pc = "submit"
    /\ nsub < MaxSubmissions
    /\ \E out \in [1..Len(data) -> Outcomes], twice \in BOOLEAN :
        /\ response' = IF twice THEN Doubled(Respond(data, out))
                                ELSE Respond(data, out)
        /\ outcome' = out
        /\ first' = IF nsub = 0 THEN [batch |-> data, out |-> out] ELSE first
        /\ prevAccepted' = everAccepted
        /\ everAccepted' = everAccepted \cup
              {data[p].id : p \in {q \in 1..Len(data) : out[q] = "acc"}}
        /\ everPermIds' = everPermIds \cup
              {data[p].id : p \in {q \in 1..Len(data) : out[q] = "perm"}}
        /\ everPermEntries' = everPermEntries \cup
              {ErrorEntry(ErrorOf(p, out[p])) :
                  p \in {q \in 1..Len(data) : out[q] = "perm"}}
        /\ lastRetryIds' =
              {data[p].id : p \in {q \in 1..Len(data) : out[q] = "retry"}}
    /\ nsub' = nsub + 1
    /\ pc' = "classify"
    /\ UNCHANGED <<others, kwargs, data, i, locals, report, raisedBy, chunk, remaps>>

\* send_batch_events.py:70-72, 113-115  the call to the endpoint raises
SubmitRaises ==
    /\ pc = "submit"
    /\ nsub < MaxSubmissions
    /\ nsub' = nsub + 1
    /\ pc' = ExceptHandler
    /\ raisedBy' = "Transport"
    /\ UNCHANGED <<others, kwargs, data, i, response, locals, report, chunk, outcome,
                   first, prevAccepted, everAccepted, everPermIds,
                   everPermEntries, lastRetryIds, remaps>>

\* send_batch_events.py:74-88  the response is classified
Classify ==
    /\ pc = "classify"
    /\ LET clicks == AcceptedClicks(response)
           attempted == MapNotAcceptedClicks(data, clicks)
       IN  /\ attempted_clicks' = attempted
           /\ IF ParseRaises(attempted, response)
              THEN /\ pc' = ExceptHandler
                   /\ raisedBy' = "IndexError"
                   /\ UNCHANGED <<clicks_to_send_again, partial_errors_list>>
              ELSE /\ pc' = "check"
                   /\ raisedBy' = raisedBy
                   /\ clicks_to_send_again' =
                          ClicksToSendAgain(attempted, response)
                   /\ partial_errors_list' = PartialErrorsList(response)
    /\ UNCHANGED <<others, kwargs, data, i, response, report, history>>

\* send_batch_events.py:90-95  the terminal check succeeds
Return ==
    /\ pc = "check"
    /\ IsTerminal(attempted_clicks, data, clicks_to_send_again)
    /\ report' = Report(partial_errors_list, response)
    /\ pc' = "done"
    /\ UNCHANGED <<others, kwargs, data, i, response, locals, raisedBy, history>>

\* send_batch_events.py:97-112  the records to send again are remapped, the
\* round is counted and the loop ends at the cap
Remap ==
    /\ pc = "check"
    /\ ~IsTerminal(attempted_clicks, data, clicks_to_send_again)
    /\ remaps' = remaps + 1
    /\ IF MapDataRaises(clicks_to_send_again)
       THEN /\ pc' = ExceptHandler
            /\ raisedBy' = "MappingError"
            /\ UNCHANGED <<data, i, clicks_to_send_again, report>>
       ELSE /\ data' \in MapData(clicks_to_send_again)
            /\ clicks_to_send_again' = << >>
            /\ i' = i + 1
            /\ IF i + 1 = RoundCap
               THEN /\ report' = Report(partial_errors_list, response)
                    /\ pc' = "done"
               ELSE /\ report' = report
                    /\ pc' = "submit"
            /\ raisedBy' = raisedBy
    /\ UNCHANGED <<others, kwargs, response, attempted_clicks, partial_errors_list,
                   chunk, nsub, outcome, first, prevAccepted, everAccepted,
                   everPermIds, everPermEntries, lastRetryIds>>

Next == Start \/ SubmitAnswered \/ SubmitRaises \/ Classify \/ Return \/ Remap

Spec == Init /\ [][Next]_vars

\* ------------------------------------------------------------- properties

Terminated == pc \in {"done", "raised", "value_error", "key_error"}

\* The positions of the first round that the endpoint decided as o.
FirstWith(o) == {p \in 1..Len(first.out) : first.out[p] = o}

\* The result the endpoint returns for the accepted record id of the chunk.
AcceptedResult(id) == [gclid |-> chunk[id].gclid, set |-> TRUE]

\* C1: when the endpoint accepts every record of a non-empty batch, the
\* invocation makes exactly one submission, never goes on to remap, is not
\* ended by an exception of its own and returns an empty error list.
C1_AllAcceptedEndsInRoundOne ==
    (nsub >= 1 /\ raisedBy # "Transport" /\ first # NoFirst
        /\ FirstWith("acc") = 1..Len(first.out))
    => /\ nsub = 1
       /\ remaps = 0
       /\ pc \in {"classify", "check", "done"}
       /\ (pc = "done" => report.partial_errors_list = << >>)

\* C2: when exactly one record is rejected in round 1 with the recoverable
\* reason (and the endpoint accepts it when it is sent again), the invocation
\* is not ended by an exception, ends by round 2, the record is among the
\* accepted results and the returned error list has no entry for it.
C2_RetryableAcceptedByRoundTwo ==
    (first # NoFirst /\ Cardinality(FirstWith("retry")) = 1)
    => /\ raisedBy \in {"none", "Transport"}
       /\ \A p \in FirstWith("retry") :
            (pc = "done" /\ first.batch[p].id \in everAccepted)
            => /\ nsub <= 2
               /\ AcceptedResult(first.batch[p].id) \in
                      Range(report.conversion_upload_response_results)
               /\ \A k \in 1..Len(report.partial_errors_list) :
                      report.partial_errors_list[k].message
                          # RecoverableMessage

\* The three classes of the classification of position p of the batch.
ClassedAccepted(p) == data[p].gclid \in AcceptedClicks(response)

ClassedPermanent(p) ==
    \E k \in 1..Len(partial_errors_list) :
        /\ partial_errors_list[k].position = p
        /\ partial_errors_list[k].message # RecoverableMessage

ClassedRetryable(p) ==
    \E k \in 1..Len(clicks_to_send_again) :
        clicks_to_send_again[k].id = data[p].id

\* C3: after the classification of a round every submitted record is in
\* exactly one of the classes accepted, permanently rejected (with an error
\* entry) and retryable (carried into the next batch).
C3_EveryRecordInOneClass ==
    pc = "check" =>
        \A p \in 1..Len(data) :
            Cardinality({c \in {"a", "p", "r"} :
                \/ c = "a" /\ ClassedAccepted(p)
                \/ c = "p" /\ ClassedPermanent(p)
                \/ c = "r" /\ ClassedRetryable(p)}) = 1

\* C4: a round in which the endpoint accepted or permanently rejected every
\* submitted record (no retryable one) ends the invocation in that round:
\* the next step returns the classification of the round, with no further
\* submission.
C4_NoRetryableEndsTheRound ==
    [][(pc = "check" /\ \A p \in 1..Len(outcome) : outcome[p] \in {"acc", "perm"})
        => /\ pc' = "done"
           /\ nsub' = nsub
           /\ report' = Report(partial_errors_list, response)]_vars

\* C5: the returned error list holds the entry (position, message, code) of
\* every record that was permanently rejected in any round of the invocation.
C5_ErrorListAccumulates ==
    pc = "done" => everPermEntries \subseteq Range(report.partial_errors_list)

\* C6: the returned accepted results hold every record the endpoint accepted
\* in a round before the one the invocation ended in.
C6_AcceptedResultsAccumulate ==
    pc = "done" =>
        \A id \in prevAccepted :
            AcceptedResult(id) \in
                Range(report.conversion_upload_response_results)

\* The records the recoverable errors of the response point at, by the
\* index of the submitted batch.
RecordsAtErrorIndex ==
    LET rec == SelectSeq(response.errors, IsRecoverable)
    IN  [k \in 1..Len(rec) |-> RetryPayload(data[rec[k].index + 1])]

\* C7: the record chosen to be sent again for a recoverable error at index k
\* is the record at position k of the batch submitted in that round.
C7_RetryChosenByBatchIndex ==
    pc = "check" => clicks_to_send_again = RecordsAtErrorIndex

\* C8: no batch submitted after the first round holds a record that was
\* accepted or permanently rejected in an earlier round; it holds only
\* records the endpoint rejected as retryable in the preceding round.
C8_OnlyRetryableResubmitted ==
    (pc = "submit" /\ nsub >= 1) =>
        \A k \in 1..Len(data) :
            /\ data[k].id \notin everAccepted \cup everPermIds
            /\ data[k].id \in lastRetryIds

\* A second batch was submitted after a round with a permanent rejection.
C8_Witness == nsub = 2 /\ pc = "classify" /\ everPermIds # {}

\* C9: an invocation never makes a 51st submission: every submission after
\* the first follows a round counted in i, a batch is submitted only while
\* i is below the cap, and the invocation is never stuck before it has
\* returned or raised.
C9_AtMostRoundCapSubmissions ==
    /\ nsub <= RoundCap
    /\ nsub <= i + 1
    /\ pc \in {"submit", "classify", "check"} => i < RoundCap
    /\ Terminated \/ ENABLED Next

\* The invocation has ended after a round with a retryable rejection.
C9_Witness == Terminated /\ nsub >= 1 /\ lastRetryIds # {}

\* The entries of the errors of the response without the recoverable message.
EntriesOfPermanentErrors ==
    LET perm == SelectSeq(response.errors, LAMBDA err : ~IsRecoverable(err))
    IN  [k \in 1..Len(perm) |-> ErrorEntry(perm[k])]

C12_OnePermanentOneEntry ==
    (first # NoFirst /\ Cardinality(FirstWith("perm")) = 1
        /\ FirstWith("perm") \cup FirstWith("acc") = 1..Len(first.out))
    => /\ raisedBy \in {"none", "Transport"}
       /\ pc = "done" =>
            /\ Len(report.partial_errors_list) = 1
            /\ report.partial_errors_list[1].position \in FirstWith("perm")

\* C13: when the call to the endpoint raised, the invocation has ended with
\* RuntimeError, has returned no report and takes no further step (no
\* further submission).
C13_TransportFailureEndsInvocation ==
    raisedBy = "Transport" =>
        /\ pc = "raised"
        /\ report = NoReport
        /\ ~ENABLED Next

\* The call to the endpoint raised in the second round.
C13_Witness == raisedBy = "Transport" /\ nsub = 2 /\ pc = "raised"

\* ------------------------------------------------ DataSplitter on its own

SplitterInit ==
    UploaderIdle /\ RunnerIdle /\ PipelineIdle /\ ValidatorIdle /\ PoolIdle
    /\ IdentifiersIdle
    /\ InitSplitter

SplitterNext == SplitterConstruct \/ SplitDataIntoChunks

SpecSplitter == SplitterInit /\ [][SplitterNext]_vars

\* The chunks one after the other.
RECURSIVE Concat(_)
Concat(chunks) ==
    IF chunks = << >> THEN << >> ELSE Head(chunks) \o Concat(Tail(chunks))

C15_EmptyInputAndBadSizeFail ==
    /\ (sp_pc \in {"returned", "raised"} /\ data_to_split.items = << >>)
        => /\ sp_pc = "raised"
           /\ sp_error = "There is no data to split"
           /\ list_of_chunks = << >>
    /\ num_of_splits <= 0
        => /\ sp_pc \in {"new", "value_error"}
           /\ (sp_pc = "value_error" /\ data_to_split.is_list)
                => sp_error = "Number of splits must be greater than 0."
    /\ sp_pc = "returned" => list_of_chunks # << >>

\* The call on an empty list has failed.
C15_Witness == sp_pc = "raised" /\ data_to_split.items = << >>

\* ------------------------------------- properties of run_threaded_tasks

RunnerInit ==
    UploaderIdle /\ SplitterIdle /\ PipelineIdle /\ ValidatorIdle /\ PoolIdle
    /\ IdentifiersIdle
    /\ InitRunner

RunnerNext ==
    RunnerSubmit \/ TaskRuns \/ RunnerJoin \/ RunnerReturns \/ RunnerRaises

SpecRunner == RunnerInit /\ [][RunnerNext]_vars

\* The call has returned or raised.
RunnerEnded == tr_pc \in {"returned", "raised"}

\* Task k has run and raised.
TaskFailed(k) == task_state[k] = "done" /\ ~task_result[k].ok

\* C16: when the call succeeds, the returned list holds the results in the
\* order in which the tasks completed.
C16_ResultsInCompletionOrder ==
    tr_pc = "returned" =>
        tr_result = [j \in 1..Len(completed) |->
                        task_result[completed[j]].value]

\* C17: if any task raises, the call raises RuntimeError and returns no
\* results at all, those of the tasks that succeeded included.
C17_OneFailureFailsTheCall ==
    (RunnerEnded /\ \E k \in DOMAIN task_state : TaskFailed(k)) =>
        /\ tr_pc = "raised"
        /\ tr_error = "RuntimeError"
        /\ tr_result = << >>

C17_Witness ==
    /\ tr_pc = "raised"
    /\ \E k \in DOMAIN task_state : TaskFailed(k)
    /\ \E k \in DOMAIN task_state : task_result[k].ok

\* C18: the call returns or raises only after every submitted task has run
\* to completion; a task that raises does not cancel or skip its siblings.
C18_EndsAfterEveryTaskCompleted ==
    (tr_pc \in {"joined", "returned", "raised"}) =>
        /\ Len(completed) = Len(rows)
        /\ \A k \in DOMAIN task_state :
            /\ task_state[k] = "done"
            /\ task_result[k] = TaskOutcome(rows[k])
            /\ \E j \in DOMAIN completed : completed[j] = k

\* The first task to complete raised, its sibling ran after it nevertheless.
C18_Witness ==
    /\ tr_pc = "raised"
    /\ Len(completed) = 2
    /\ TaskFailed(completed[1])
    /\ task_result[completed[2]].ok

\* Some row of the collection cannot be mapped, some other row can.
OneBadRecord ==
    /\ \E k \in DOMAIN rows : MapperRaises(rows[k])
    /\ \E k \in DOMAIN rows : ~MapperRaises(rows[k])

\* C19 as stated: when one record fails to map, the mapped events of its
\* siblings are still delivered to the caller.
C19_SiblingEventsDelivered ==
    (RunnerEnded /\ OneBadRecord) =>
        \A k \in DOMAIN rows :
            ~MapperRaises(rows[k]) =>
                \E j \in DOMAIN tr_result : tr_result[j] = MappedFields(rows[k])

\* C19, amended: when one record fails to map, its siblings are still
\* mapped, but map_data raises for the whole collection and delivers none
\* of the mapped events.
C19_OneBadRecordFailsTheCollection ==
    (RunnerEnded /\ OneBadRecord) =>
        /\ tr_pc = "raised"
        /\ tr_error = "RuntimeError"
        /\ tr_result = << >>
        /\ \A k \in DOMAIN rows :
            ~MapperRaises(rows[k]) =>
                task_result[k] = [ok |-> TRUE, value |-> MappedFields(rows[k])]

C19_Witness == tr_pc = "raised" /\ OneBadRecord /\ Len(rows) = MaxTasks

\* C20: the mapper fails with its mapping error for a record that lacks the
\* conversion value, and for a record with all fields present the event's
\* currency code, conversion name, conversion time, conversion value and
\* click id equal the record's currency, conversion_name, conversion_time,
\* value and click_id.
C20_MapperCopiesTheFields ==
    \A k \in DOMAIN rows :
        task_state[k] = "done" =>
            /\ "value" \notin rows[k].keys =>
                task_result[k] = [ok |-> FALSE, value |-> MappingError]
            /\ RawRowKeys \subseteq rows[k].keys =>
                /\ task_result[k].ok
                /\ task_result[k].value.ConversionCurrencyCode
                       = rows[k].fields["currency"]
                /\ task_result[k].value.ConversionName
                       = rows[k].fields["conversion_name"]
                /\ task_result[k].value.ConversionTime
                       = rows[k].fields["conversion_time"]
                /\ task_result[k].value.ConversionValue
                       = rows[k].fields["value"]
                /\ task_result[k].value.MicrosoftClickId
                       = rows[k].fields["click_id"]

C20_Witness ==
    /\ \E k \in DOMAIN rows :
        task_state[k] = "done" /\ "value" \notin rows[k].keys
    /\ \E k \in DOMAIN rows :
        task_state[k] = "done" /\ RawRowKeys \subseteq rows[k].keys

\* C21: the mapper fails whenever a required field of the raw record is
\* absent (conversion time, transaction id, email, phone, conversion name,
\* currency, value): no record lacking one of them is turned into an event.
C21_MissingRequiredFieldFails ==
    \A k \in DOMAIN rows :
        (task_state[k] = "done" /\ ~(RequiredFields \subseteq rows[k].keys))
            => task_result[k] = [ok |-> FALSE, value |-> MappingError]

\* ----------------------------------------------------- properties of run

PipelineInit ==
    UploaderIdle /\ SplitterIdle /\ RunnerIdle /\ ValidatorIdle /\ PoolIdle
    /\ IdentifiersIdle
    /\ InitPipeline

PipelineNext ==
    \/ ServiceConstruct \/ ServiceConstructFails \/ ExtractData
    \/ AuthenticationFails \/ StartMapping
    \/ RunnerSubmit \/ TaskRuns \/ RunnerJoin \/ RunnerReturns \/ RunnerRaises
    \/ MappingEnds
    \/ SplitterConstruct \/ SplitDataIntoChunks
    \/ ChunkingEnds \/ LoadTaskRuns \/ LoadEnds

SpecPipeline == PipelineInit /\ [][PipelineNext]_vars

\* read_data has been called and is over.
ExtractionOver ==
    /\ pl_pc \notin {"idle", "request", "service"}
    /\ pl_error # "Failed to create BigQuery client"

\* C22: extract_data never returns an empty collection: when the query
\* yields zero rows it fails with an error, so transform_data is never
\* invoked on zero rows.
C22_ExtractionNeverReturnsEmpty ==
    /\ (ExtractionOver /\ table.query = "ok" /\ table.rows = << >>) =>
            pl_pc = "raised" /\ pl_error = "EmptyTableException"
    /\ (ExtractionOver /\ pl_pc # "raised") =>
            pl_data # << >> /\ pl_data = table.rows
    /\ tr_pc # "idle" => rows # << >>

C22_Witness ==
    pl_pc = "raised" /\ pl_error = "EmptyTableException" /\ tr_pc = "idle"

\* run has returned or raised.
PipelineEnded == pl_pc \in {"returned", "raised"}

\* The upload tasks of load_data have been started.
LoadStarted == ld_state # << >>

\* C23: when extraction, authentication and mapping succeed (and no endpoint
\* call fails), run returns a report instead of raising: every upload task
\* gets the client and the customer id it requires.
C23_LoadTasksGetTheirInputs ==
    /\ \A c \in DOMAIN ld_result : ld_result[c] # "KeyError"
    /\ (PipelineEnded /\ LoadStarted
            /\ \A c \in DOMAIN ld_result : ld_result[c] # "RuntimeError")
        => pl_pc = "returned" /\ pl_return # "none"

\* C24: the stages run strictly in sequence (no mapping task before
\* extraction has returned, chunking only after every mapping task has
\* finished, no upload before chunking has finished), and the reports of
\* the chunks are then combined into a single pipeline result.
C24_StagesInSequenceThenOneResult ==
    /\ tr_pc # "idle" => pl_data # << >> /\ rows = pl_data
    /\ sp_pc # "idle" =>
        /\ tr_pc = "returned"
        /\ \A k \in DOMAIN task_state : task_state[k] = "done"
    /\ LoadStarted => sp_pc = "returned"
    /\ (PipelineEnded /\ LoadStarted) =>
        /\ pl_pc = "returned"
        /\ pl_return = StrOfLoader
        /\ \A c \in DOMAIN ld_result : ld_result[c] = "report"

\* C25: run returns the string 'True' when the pipeline succeeds and the
\* string 'False' when it fails in any stage.
C25_ReturnsTrueOrFalse ==
    PipelineEnded =>
        /\ pl_pc = "returned"
        /\ pl_error = "none" => pl_return = "True"
        /\ pl_error # "none" => pl_return = "False"

\* --------------------------------------- properties of BQFieldstValidator

ValidatorInit ==
    UploaderIdle /\ SplitterIdle /\ RunnerIdle /\ PipelineIdle /\ PoolIdle
    /\ IdentifiersIdle
    /\ InitValidator

ValidatorNext == Validate \/ Dump

SpecValidator == ValidatorInit /\ [][ValidatorNext]_vars

\* C26: for every row the validator accepts, the validated model converted
\* back to a dict equals the row (no field added or dropped, no value
\* changed), and a row carrying the fields produced by extraction (the row
\* of the test) is accepted.
C26_ValidationRoundTrip ==
    /\ val_pc = "dumped" => val_dict = val_row
    /\ (val_row.keys = TestKeys /\ val_row.fields["value"][1] # "junk")
            => val_pc # "rejected"

\* ------------------------------------ two upload tasks running side by side

\* workers.py:175-178  the upload tasks of one send_batch_events call
PoolTasks == {1, 2}

\* The click identifiers of the records of a chunk, by position.
PoolGclids == <<"g1", "g2", "g3">>

\* The chunk of n records handed to task t; the records of different chunks
\* are different records.
PoolChunk(t, n) == [k \in 1..n |-> Event(100 * t + k, PoolGclids[k])]

\* One call frame for all invocations: the locals kept on the shared object.
SharedFrame(t) == 1

\* send_batch_events.py:36-112  data, i, the response and the three lists are
\* locals of __send_events: every invocation has a call frame of its own
Frame(t) == t

FrameIds == { Frame(t) : t \in PoolTasks }

\* send_batch_events.py:36, 60  the locals when __send_events is entered
NewFrame(d) ==
    [data |-> d, i |-> 0, response |-> NoResponse, attempted |-> << >>,
     again |-> << >>, errors |-> << >>]

\* send_batch_events (line 32-34) is about to start one task per chunk.
InitPool ==
    /\ up_pc = [t \in PoolTasks |-> "start"]
    /\ \E n \in [PoolTasks -> 0..MaxPoolBatch] :
        up_chunk = [t \in PoolTasks |-> PoolChunk(t, n[t])]
    /\ frames = [f \in FrameIds |-> NewFrame(<< >>)]
    /\ up_report = [t \in PoolTasks |-> NoReport]
    /\ sent = [t \in PoolTasks |-> << >>]
    /\ answers = [t \in PoolTasks |-> NoResponse]

\* send_batch_events.py:36-60  a task enters __send_events with its chunk
PoolStart ==
    \E t \in PoolTasks :
        /\ up_pc[t] = "start"
        /\ frames' = [frames EXCEPT ![Frame(t)] = NewFrame(up_chunk[t])]
        /\ up_pc' = [up_pc EXCEPT ![t] =
                IF SendEventsEntry(up_chunk[t], KwargNames) = "submit"
                THEN "submit" ELSE "raised"]
        /\ UNCHANGED <<up_chunk, up_report, sent, answers>>
        /\ UNCHANGED exceptPool

\* send_batch_events.py:63-72  a task sends its batch, the endpoint answers
PoolSubmitAnswered ==
    \E t \in PoolTasks :
        /\ up_pc[t] = "submit"
        /\ LET f == frames[Frame(t)]
           IN  \E out \in [1..Len(f.data) -> Outcomes] :
                /\ frames' = [frames EXCEPT
                        ![Frame(t)].response = Respond(f.data, out)]
                /\ sent' = [sent EXCEPT ![t] = f.data]
                /\ answers' = [answers EXCEPT ![t] = Respond(f.data, out)]
        /\ up_pc' = [up_pc EXCEPT ![t] = "classify"]
        /\ UNCHANGED <<up_chunk, up_report>>
        /\ UNCHANGED exceptPool

\* send_batch_events.py:70-72, 113-115  the call to the endpoint raises
PoolSubmitRaises ==
    \E t \in PoolTasks :
        /\ up_pc[t] = "submit"
        /\ up_pc' = [up_pc EXCEPT ![t] = ExceptHandler]
        /\ UNCHANGED <<up_chunk, frames, up_report, sent, answers>>
        /\ UNCHANGED exceptPool

\* send_batch_events.py:74-88  a task classifies the response it holds
PoolClassify ==
    \E t \in PoolTasks :
        /\ up_pc[t] = "classify"
        /\ LET f == frames[Frame(t)]
               attempted ==
                   MapNotAcceptedClicks(f.data, AcceptedClicks(f.response))
           IN  IF ParseRaises(attempted, f.response)
               THEN /\ up_pc' = [up_pc EXCEPT ![t] = ExceptHandler]
                    /\ frames' = [frames EXCEPT
                            ![Frame(t)].attempted = attempted]
               ELSE /\ up_pc' = [up_pc EXCEPT ![t] = "check"]
                    /\ frames' = [frames EXCEPT
                            ![Frame(t)].attempted = attempted,
                            ![Frame(t)].again =
                                ClicksToSendAgain(attempted, f.response),
                            ![Frame(t)].errors =
                                PartialErrorsList(f.response)]
        /\ UNCHANGED <<up_chunk, up_report, sent, answers>>
        /\ UNCHANGED exceptPool

\* send_batch_events.py:90-95  the terminal check of a task succeeds
PoolReturn ==
    \E t \in PoolTasks :
        /\ up_pc[t] = "check"
        /\ LET f == frames[Frame(t)]
           IN  /\ IsTerminal(f.attempted, f.data, f.again)
               /\ up_report' = [up_report EXCEPT
                        ![t] = Report(f.errors, f.response)]
        /\ up_pc' = [up_pc EXCEPT ![t] = "done"]
        /\ UNCHANGED <<up_chunk, frames, sent, answers>>
        /\ UNCHANGED exceptPool

\* send_batch_events.py:97-112  a task remaps the records to send again
PoolRemap ==
    \E t \in PoolTasks :
        /\ up_pc[t] = "check"
        /\ LET f == frames[Frame(t)]
           IN  /\ ~IsTerminal(f.attempted, f.data, f.again)
               /\ IF MapDataRaises(f.again)
                  THEN /\ up_pc' = [up_pc EXCEPT ![t] = ExceptHandler]
                       /\ UNCHANGED <<frames, up_report>>
                  ELSE /\ \E d \in MapData(f.again) :
                            frames' = [frames EXCEPT
                                ![Frame(t)].data = d,
                                ![Frame(t)].again = << >>,
                                ![Frame(t)].i = f.i + 1]
                       /\ IF f.i + 1 = RoundCap
                          THEN /\ up_report' = [up_report EXCEPT
                                    ![t] = Report(f.errors, f.response)]
                               /\ up_pc' = [up_pc EXCEPT ![t] = "done"]
                          ELSE /\ up_report' = up_report
                               /\ up_pc' = [up_pc EXCEPT ![t] = "submit"]
        /\ UNCHANGED <<up_chunk, sent, answers>>
        /\ UNCHANGED exceptPool

PoolInit ==
    UploaderIdle /\ SplitterIdle /\ RunnerIdle /\ PipelineIdle /\ ValidatorIdle
    /\ IdentifiersIdle
    /\ InitPool

PoolNext ==
    \/ PoolStart \/ PoolSubmitAnswered \/ PoolSubmitRaises
    \/ PoolClassify \/ PoolReturn \/ PoolRemap

SpecPool == PoolInit /\ [][PoolNext]_vars

\* C27: concurrent invocations for different chunks share no retry state:
\* under every interleaving the report a task returns is made of the
\* endpoint's answer to that task's own last submission, and every batch a
\* task submits comes from its own chunk.
C27_ReportFromOwnChunkOnly ==
    \A t \in PoolTasks :
        /\ up_pc[t] = "done" =>
              up_report[t] = Report(PartialErrorsList(answers[t]), answers[t])
        /\ sent[t] \in {up_chunk[t], << >>}
        /\ Len(answers[t].results) = Len(sent[t])
        /\ up_pc[t] \in {"submit", "classify", "check"} =>
              Range(frames[Frame(t)].data) \subseteq Range(up_chunk[t])

\* Both tasks have returned, each its own report, the first one having
\* submitted twice.
C27_Witness ==
    /\ \A t \in PoolTasks : up_pc[t] = "done"
    /\ up_report[1] # up_report[2]
    /\ sent[1] = << >> /\ up_chunk[1] # << >>

\* ------------------------- further properties of one __send_events call

\* Record p of the batch just classified is counted accepted: it is not
\* among the attempted (not accepted) clicks.
CountedAccepted(p) ==
    \A k \in 1..Len(attempted_clicks) : attempted_clicks[k].id # data[p].id

\* C28: a submitted record is classified as accepted only if the response
\* holds an accepted result for that very record, also when its click
\* identifier is empty or equals that of another accepted record.
C28_AcceptedOnlyIfItselfAccepted ==
    pc = "check" =>
        \A p \in 1..Len(data) : CountedAccepted(p) => outcome[p] = "acc"

\* C29: no empty batch is ever submitted to the endpoint: an empty chunk is
\* refused before any submission, and every resubmitted batch holds at
\* least one record.
C29_NoEmptyBatchSubmitted ==
    /\ (chunk = << >> /\ pc # "start") => (pc = "value_error" /\ nsub = 0)
    /\ pc = "classify" => data # << >>

\* C30: the submitted batch never grows from one round to the next, so no
\* batch holds more records than the original chunk, also when the response
\* carries several errors for the same index.
C30_BatchNeverGrows ==
    /\ Len(data) <= Len(chunk)
    /\ first # NoFirst => Len(data) <= Len(first.batch)
    /\ pc \in {"classify", "check"} => Len(response.results) <= Len(chunk)

\* The response carried two errors for the same index, both with the
\* recoverable reason, and the loop went on to remap the records.
C30_Witness ==
    /\ remaps >= 1
    /\ Len(clicks_to_send_again) > Len(first.batch)
    /\ \E j, k \in 1..Len(response.errors) :
        j # k /\ response.errors[j].index = response.errors[k].index

\* ------------------------------ further properties of run_threaded_tasks

\* C31: on success the returned list holds exactly one result per input
\* item: it is as long as the input and a permutation of the task function
\* applied to each input, whatever order the workers finish in.
C31_OneResultPerItem ==
    tr_pc = "returned" =>
        /\ Len(tr_result) = Len(rows)
        /\ \E p \in Perms([k \in 1..Len(rows) |-> k]) :
            \A j \in 1..Len(rows) : tr_result[j] = MappedFields(rows[p[j]])

\* Two different rows, returned in the order opposite to the input's, the
\* second task having finished first.
C31_Witness ==
    /\ tr_pc = "returned"
    /\ Len(rows) = 2
    /\ completed = <<2, 1>>
    /\ tr_result[1] # tr_result[2]
    /\ tr_result[1] = MappedFields(rows[2])

\* Row k carries no click identifier: the field is absent, or null.
NoClickId(k) ==
    "click_id" \notin rows[k].keys \/ rows[k].fields["click_id"] = NoneValue

\* C32: a raw record with every required field and no click identifier is
\* mapped to an event, both when click_id is present with a null value and
\* when the field is absent.
C32_NoClickIdMapsSuccessfully ==
    \A k \in DOMAIN rows :
        (task_state[k] = "done" /\ RequiredFields \subseteq rows[k].keys
            /\ NoClickId(k))
        => task_result[k].ok

\* ------------------------------------------ further properties of DataSplitter

C33_EveryExtractedRowIsValid ==
    /\ \A k \in DOMAIN pl_data : ValidatorAccepts(pl_data[k])
    /\ (ExtractionOver /\ table.query = "ok"
            /\ \E k \in DOMAIN table.rows : ~ValidatorAccepts(table.rows[k]))
        => pl_error = "ValidationError"

\* The upload tasks have been started.
UploadStarted == ld_state # << >>

\* C34: within one run the authenticated client handle is built at most
\* once, however often Service.client is read; the handle given to the
\* upload stage is the one given to the mapping stage; and no step of a
\* mapping or upload worker changes it.
C34_OneSharedClientHandle ==
    [][ /\ handles_built' <= 1
        /\ UploadStarted' =>
              /\ loader_client' = mapper_client'
              /\ loader_client' # NoHandle
        /\ (TaskRuns \/ LoadTaskRuns) =>
              UNCHANGED <<auth_cache, mapper_client, loader_client>>
      ]_vars

\* Service.client has been read twice, and workers of both stages have run.
C34_Witness ==
    /\ Len(rows) = 2
    /\ \A k \in DOMAIN rows : task_state[k] = "done"
    /\ \E c \in DOMAIN ld_state : ld_state[c] = "done"
    /\ handles_built = 1
    /\ loader_client = NewHandle(1)

\* --------------------------------------- properties of the retry payload

IdentifiersInit ==
    UploaderIdle /\ SplitterIdle /\ RunnerIdle /\ PipelineIdle
    /\ ValidatorIdle /\ PoolIdle
    /\ InitIdentifiers

IdentifiersNext == CreatePayload \/ NextIdentifier \/ AppendPayload

SpecIdentifiers == IdentifiersInit /\ [][IdentifiersNext]_vars

\* C36: in the retry payload email takes precedence over phone: an
\* identifier with a hashed email sets the payload's email and leaves its
\* phone alone, the phone changes only at an identifier without hashed
\* email, and an identifier that carries neither value leaves an email or
\* phone taken from an earlier identifier as it was.
C36_EmailPrecedenceAndNoErasure ==
    [][ NextIdentifier =>
          LET identifier == user_identifiers[id_k + 1]
          IN  /\ identifier.hashed_email # "" =>
                    /\ data_to_retry'.email = identifier.hashed_email
                    /\ data_to_retry'.phone = data_to_retry.phone
              /\ data_to_retry'.phone # data_to_retry.phone =>
                    identifier.hashed_email = ""
              /\ (identifier.hashed_email = ""
                    /\ identifier.hashed_phone_number = "") =>
                    /\ data_to_retry'.email = data_to_retry.email
                    /\ data_to_retry.phone \notin {"None", ""} =>
                          data_to_retry'.phone = data_to_retry.phone
      ]_vars

====
